---- MODULE Spec2Model ----
(***************************************************************************)
(* Model of scripts/daily_prompt.py: the daily journal question script.    *)
(*                                                                         *)
(* Text is a sequence of one-character strings.  Three specifications:     *)
(*   SpecNorm  normalize_output applied to bounded raw texts, then to its  *)
(*             own output;                                                 *)
(*   SpecTail  tail_history applied to bounded histories and integers;     *)
(*   Spec      main(), step by step, over a sequence of runs that share    *)
(*             the history file.                                           *)
(***************************************************************************)
EXTENDS Integers, Sequences, FiniteSets, TLC

VARIABLES
    tPc,            \* harness position: "ready", "once", "twice", "off"
    tIn,            \* harness input (raw text, or [history, n])
    tOut,           \* harness result of the first application
    tOut2,          \* harness result of normalize_output on its own output
    pc,             \* position of main() in the current run
    env,            \* process environment: variable name -> value
    pathHasDir,     \* os.path.dirname(HISTORY_PATH) is non-empty
    fileExists,     \* the history file exists
    fileLines,      \* the history file's lines, in file order
    fileAtStart,    \* [exists, lines] of the history file when the run began
    history_tail_n, \* main's history_tail_n
    history,        \* main's history (result of load_history)
    recent,         \* main's recent (result of tail_history)
    user_input,     \* the context lines sent to the generation call
    raw,            \* resp.output_text of this run's generation call
    question_block, \* main's question_block
    err,            \* the error that ended the run, or "none"
    genCalls,       \* generation calls made in this run
    emailCalls,     \* textContent of each POST made to the email endpoint in this run
    clock,          \* wall clock, one tick per run
    runs            \* completed or started runs

hvars == <<tPc, tIn, tOut, tOut2>>
mvars == <<pc, env, pathHasDir, fileExists, fileLines, fileAtStart, history_tail_n,
           history, recent, user_input, raw, question_block, err, genCalls,
           emailCalls, clock, runs>>
vars == <<tPc, tIn, tOut, tOut2, pc, env, pathHasDir, fileExists, fileLines,
          fileAtStart, history_tail_n, history, recent, user_input, raw,
          question_block, err, genCalls, emailCalls, clock, runs>>

(***************************************************************************)
(* Bounds.                                                                 *)
(***************************************************************************)
MaxLineLen == 4     \* longest enumerated raw line
MaxLines == 6       \* most lines in an enumerated raw text
MaxHist == 3        \* longest history given to tail_history
MaxN == 4           \* largest |n| given to tail_history
MaxRuns == 2        \* runs of main() in one behaviour

(***************************************************************************)
(* Program constants.                                                      *)
(***************************************************************************)
K == 5                  \* required number of non-empty lines
HTTP_ERROR_FROM == 300  \* first status code treated as a failure

(***************************************************************************)
(* Characters.  The whitespace and line-break sets are the members of      *)
(* Python's that occur in the modelled alphabet.                           *)
(***************************************************************************)
Whitespace == {" ", "\t", "\n"}
LineBreaks == {"\n"}
Alphabet == {"a", "?", ".", " ", "\t"}

Min(a, b) == IF a < b THEN a ELSE b

SeqsUpTo(S, n) == UNION {[1..k -> S] : k \in 0..n}

(***************************************************************************)
(* Python str methods used by the script.                                  *)
(***************************************************************************)
RECURSIVE splitlines_from(_, _, _)
splitlines_from(s, i, cur) ==
    IF i > Len(s) THEN (IF cur = <<>> THEN <<>> ELSE <<cur>>)
    ELSE IF s[i] \in LineBreaks
         THEN <<cur>> \o splitlines_from(s, i + 1, <<>>)
         ELSE splitlines_from(s, i + 1, Append(cur, s[i]))

\* str.splitlines(): a trailing line break does not open a new line
splitlines(s) == splitlines_from(s, 1, <<>>)

RECURSIVE lstrip(_)
lstrip(s) ==
    IF s # <<>> /\ Head(s) \in Whitespace THEN lstrip(Tail(s)) ELSE s

RECURSIVE rstrip_chars(_, _)
rstrip_chars(s, chars) ==
    IF s # <<>> /\ s[Len(s)] \in chars
    THEN rstrip_chars(SubSeq(s, 1, Len(s) - 1), chars)
    ELSE s

\* str.strip()
strip(s) == rstrip_chars(lstrip(s), Whitespace)

RECURSIVE split_from(_, _, _)
split_from(s, i, cur) ==
    IF i > Len(s) THEN (IF cur = <<>> THEN <<>> ELSE <<cur>>)
    ELSE IF s[i] \in Whitespace
         THEN (IF cur = <<>> THEN <<>> ELSE <<cur>>) \o split_from(s, i + 1, <<>>)
         ELSE split_from(s, i + 1, Append(cur, s[i]))

\* str.split() with no argument: split on whitespace runs, no empty words
split(s) == split_from(s, 1, <<>>)

RECURSIVE join(_, _)
join(sep, parts) ==
    IF parts = <<>> THEN <<>>
    ELSE IF Len(parts) = 1 THEN parts[1]
    ELSE parts[1] \o sep \o join(sep, Tail(parts))

endswith(s, c) == s # <<>> /\ s[Len(s)] = c

count(s, c) == Cardinality({i \in 1..Len(s) : s[i] = c})

RECURSIVE split_sep_from(_, _, _, _)
split_sep_from(s, c, i, cur) ==
    IF i > Len(s) THEN <<cur>>
    ELSE IF s[i] = c
         THEN <<cur>> \o split_sep_from(s, c, i + 1, <<>>)
         ELSE split_sep_from(s, c, i + 1, Append(cur, s[i]))

\* str.split(sep): every separator splits, empty pieces are kept
split_sep(s, c) == split_sep_from(s, c, 1, <<>>)

RECURSIVE SelectNonEmpty(_)
SelectNonEmpty(ls) ==
    IF ls = <<>> THEN <<>>
    ELSE IF Head(ls) # <<>> THEN <<Head(ls)>> \o SelectNonEmpty(Tail(ls))
    ELSE SelectNonEmpty(Tail(ls))

(***************************************************************************)
(* normalize_output                                                        *)
(***************************************************************************)
\* lines 109-110: stripped lines, empty ones dropped
nonempty_lines(text) ==
    LET lns == splitlines(text)
    IN  SelectNonEmpty([i \in 1..Len(lns) |-> strip(lns[i])])

\* lines 113-114: keep the first 5 when there are more
keep_first(lns) == IF Len(lns) > K THEN SubSeq(lns, 1, K) ELSE lns

\* faulty variant: lines 113-114 left out
raw_lines_NoTruncate(text) == nonempty_lines(text)

\* lines 109-114
raw_lines(text) == keep_first(nonempty_lines(text))

\* faulty variant: the whitespace collapse of line 125 left out
fix_line_NoCollapse(ln0) ==
    LET ln2 == IF ~endswith(ln0, "?") THEN rstrip_chars(ln0, {"."}) \o <<"?">> ELSE ln0
    IN  IF count(ln2, "?") > 1
        THEN strip(split_sep(ln2, "?")[1]) \o <<"?">>
        ELSE ln2

\* faulty variant: the '?' of line 130 not put back after the cut
fix_line_NoReappend(ln0) ==
    LET ln1 == join(<<" ">>, split(ln0))
        ln2 == IF ~endswith(ln1, "?") THEN rstrip_chars(ln1, {"."}) \o <<"?">> ELSE ln1
    IN  IF count(ln2, "?") > 1
        THEN strip(split_sep(ln2, "?")[1])
        ELSE ln2

\* faulty variant: line 130 without the .strip()
fix_line_NoStrip(ln0) ==
    LET ln1 == join(<<" ">>, split(ln0))
        ln2 == IF ~endswith(ln1, "?") THEN rstrip_chars(ln1, {"."}) \o <<"?">> ELSE ln1
    IN  IF count(ln2, "?") > 1
        THEN split_sep(ln2, "?")[1] \o <<"?">>
        ELSE ln2

\* lines 124-130: the body of the loop over raw_lines
fix_line(ln0) ==
    LET ln1 == join(<<" ">>, split(ln0))
        ln2 == IF ~endswith(ln1, "?") THEN rstrip_chars(ln1, {"."}) \o <<"?">> ELSE ln1
    IN  IF count(ln2, "?") > 1
        THEN strip(split_sep(ln2, "?")[1]) \o <<"?">>
        ELSE ln2

\* faulty variant: the line-count check of lines 117-120 left out
normalize_output_NoCountCheck(text) ==
    LET lns == raw_lines(text)
    IN  [ok |-> TRUE, got |-> Len(lns),
         value |-> join(<<"\n">>, [i \in 1..Len(lns) |-> fix_line(lns[i])])]

\* lines 100-133.  ok = FALSE is the RuntimeError of line 118, got its count.
normalize_output(text) ==
    LET lns == raw_lines(text)
    IN  IF Len(lns) # K
        THEN [ok |-> FALSE, got |-> Len(lns), value |-> <<>>]
        ELSE [ok |-> TRUE, got |-> Len(lns),
              value |-> join(<<"\n">>, [i \in 1..Len(lns) |-> fix_line(lns[i])])]

(***************************************************************************)
(* tail_history                                                            *)
(***************************************************************************)
\* Python's s[start:] for any integer start
slice_from(s, start) ==
    LET st0 == IF start < 0 THEN start + Len(s) ELSE start
        st  == IF st0 < 0 THEN 0 ELSE st0
    IN  IF st >= Len(s) THEN <<>> ELSE SubSeq(s, st + 1, Len(s))

\* faulty variant: the guard of lines 40-41 left out
tail_history_NoGuard(h, n) == slice_from(h, 0 - n)

\* lines 39-42
tail_history(h, n) == IF n <= 0 THEN <<>> ELSE slice_from(h, 0 - n)

(***************************************************************************)
(* The history file.  A line is one JSON object written by json.dumps, a   *)
(* blank line, or text json.loads rejects.  json.dumps escapes the line    *)
(* breaks of the question, so a record is one physical line.               *)
(***************************************************************************)
RECURSIVE json_escape(_)
json_escape(s) ==
    IF s = <<>> THEN <<>>
    ELSE IF Head(s) = "\n" THEN <<"\\", "n">> \o json_escape(Tail(s))
    ELSE IF Head(s) = "\\" THEN <<"\\", "\\">> \o json_escape(Tail(s))
    ELSE <<Head(s)>> \o json_escape(Tail(s))

RECURSIVE json_unescape(_)
json_unescape(s) ==
    IF s = <<>> THEN <<>>
    ELSE IF Head(s) = "\\" /\ Len(s) >= 2
         THEN <<IF s[2] = "n" THEN "\n" ELSE s[2]>> \o json_unescape(Tail(Tail(s)))
    ELSE <<Head(s)>> \o json_unescape(Tail(s))

\* line 159 and json.dumps of line 161
json_dumps(date_utc, question) ==
    [kind |-> "json", date_utc |-> date_utc, question |-> json_escape(question)]

\* json.loads of line 35, for a line that holds a JSON object
json_loads(line) ==
    [date_utc |-> line.date_utc, question |-> json_unescape(line.question)]

BlankLine == [kind |-> "blank", date_utc |-> 0, question |-> <<>>]
GarbageLine == [kind |-> "garbage", date_utc |-> 0, question |-> <<>>]

RECURSIVE parse_lines(_)
\* lines 31-35: blank lines are skipped, every other line is parsed
parse_lines(lines) ==
    IF lines = <<>> THEN <<>>
    ELSE IF Head(lines).kind = "blank" THEN parse_lines(Tail(lines))
    ELSE <<json_loads(Head(lines))>> \o parse_lines(Tail(lines))

\* lines 21-36.  os.makedirs("") raises FileNotFoundError, so a missing file
\* whose path has no directory part is not created; json.loads raises on a
\* line that is not JSON.
load_history(exists, lines, hasDir) ==
    IF ~exists
    THEN IF hasDir
         THEN [err |-> "none", items |-> <<>>, exists |-> TRUE, lines |-> <<>>]
         ELSE [err |-> "FileNotFoundError", items |-> <<>>, exists |-> FALSE,
               lines |-> lines]
    ELSE IF \E i \in 1..Len(lines) : lines[i].kind = "garbage"
         THEN [err |-> "JSONDecodeError", items |-> <<>>, exists |-> TRUE,
               lines |-> lines]
         ELSE [err |-> "none", items |-> parse_lines(lines), exists |-> TRUE,
               lines |-> lines]

\* faulty variant: the file opened with mode "w" instead of "a"
append_history_Overwrite(lines, date_utc, question) ==
    <<json_dumps(date_utc, question)>>

\* lines 158-161: one line written at the end of the file
append_history(lines, date_utc, question) ==
    Append(lines, json_dumps(date_utc, question))

(***************************************************************************)
(* Environment.                                                            *)
(***************************************************************************)
GenVars == {"OPENAI_API_KEY"}
BrevoVars == <<"BREVO_API_KEY", "BREVO_SENDER_NAME", "BREVO_SENDER_EMAIL",
               "BREVO_TO_NAME", "BREVO_TO_EMAIL">>
ReqVars == GenVars \cup {BrevoVars[i] : i \in 1..Len(BrevoVars)}

\* lines 14-18: None and "" both raise
must_getenv_raises(e, name) == e.req[name] \in {"unset", "empty"}

\* lines 165-175: the five lookups made before the POST
send_config_missing(e) ==
    \E i \in 1..Len(BrevoVars) : must_getenv_raises(e, BrevoVars[i])

DefaultTail == <<"1", "2", "0">>
Digits == {"0", "1", "2"}
DigitVal(c) == CASE c = "0" -> 0 [] c = "1" -> 1 [] c = "2" -> 2

RECURSIVE digits_value(_, _)
digits_value(s, acc) ==
    IF s = <<>> THEN acc ELSE digits_value(Tail(s), 10 * acc + DigitVal(Head(s)))

\* int(str) of line 206: an optional sign and decimal digits, else ValueError
int_parse(s) ==
    LET neg  == s # <<>> /\ Head(s) = "-"
        body == IF neg THEN Tail(s) ELSE s
    IN  IF body = <<>> \/ \E i \in 1..Len(body) : body[i] \notin Digits
        THEN [ok |-> FALSE, value |-> 0]
        ELSE [ok |-> TRUE,
              value |-> IF neg THEN 0 - digits_value(body, 0) ELSE digits_value(body, 0)]

\* os.getenv("HISTORY_TAIL", "120")
getenv_tail(e) == IF e.tail.set THEN e.tail.val ELSE DefaultTail

(***************************************************************************)
(* build_context, lines 77-90: what is shown of each prior record.         *)
(***************************************************************************)
q_show(q) ==
    LET q_lines == nonempty_lines(q)
    IN  IF Len(q_lines) >= 5 THEN q_lines[5] ELSE join(<<" ">>, split(q))

RECURSIVE build_context(_)
build_context(history_tail) ==
    IF history_tail = <<>> THEN <<>>
    ELSE IF strip(Head(history_tail).question) = <<>>
         THEN build_context(Tail(history_tail))
    ELSE <<[d |-> Head(history_tail).date_utc,
            q |-> q_show(strip(Head(history_tail).question))]>>
         \o build_context(Tail(history_tail))

(***************************************************************************)
(* main: the order of its steps.                                           *)
(***************************************************************************)
\* faulty variant: the email sent before the record is appended
main_order_SendFirst ==
    <<"config", "load", "tail", "generate", "normalize", "send", "append", "done">>

\* lines 205-224
main_order ==
    <<"config", "load", "tail", "generate", "normalize", "append", "send", "done">>

next_step(step) ==
    main_order[(CHOOSE i \in 1..Len(main_order) : main_order[i] = step) + 1]

(***************************************************************************)
(* Inputs.                                                                 *)
(***************************************************************************)
ExampleMultiMark ==
    <<"W", "h", "y", " ", "d", "o", " ", "y", "o", "u", " ", "a", "v", "o",
      "i", "d", " ", "d", "i", "s", "c", "o", "m", "f", "o", "r", "t", "?",
      "?", "?">>
ExampleNoMark ==
    <<"w", "h", "a", "t", " ", "m", "a", "t", "t", "e", "r", "s", " ", "m",
      "o", "s", "t", " ", "t", "o", "d", "a", "y">>

\* raw lines: every line over Alphabet up to MaxLineLen, and the two quoted ones
SampleLines == SeqsUpTo(Alphabet, MaxLineLen) \cup {ExampleMultiMark, ExampleNoMark}
FillerLine == <<"a", "?">>
StructLines == {<<>>, <<"a", "?">>, <<" ", "a", ".", " ">>}

\* raw texts: any arrangement of up to MaxLines blank, clean and untidy lines;
\* and K lines of which one is any sample line
RawTexts ==
    {join(<<"\n">>, ls) : ls \in SeqsUpTo(StructLines, MaxLines)}
    \cup {join(<<"\n">>, [i \in 1..K |-> IF i = p THEN ln ELSE FillerLine]) :
            p \in 1..K, ln \in SampleLines}

Rec(d, q) == [date_utc |-> d, question |-> q]
TailRecords == {Rec(1, <<"a", "?">>), Rec(2, <<"b", "?">>)}
TailInputs ==
    {[history |-> h, n |-> n] : h \in SeqsUpTo(TailRecords, MaxHist), n \in (0 - MaxN)..MaxN}

OldBlock == join(<<"\n">>, [i \in 1..K |-> <<"b", "?">>])
OldLine == json_dumps(0, OldBlock)
LegacyLine == json_dumps(0, <<"b", "\n", "b", "?">>)
InitialFiles ==
    { [exists |-> FALSE, lines |-> <<>>],
      [exists |-> TRUE, lines |-> <<>>],
      [exists |-> TRUE, lines |-> <<LegacyLine, BlankLine, OldLine>>],
      [exists |-> TRUE, lines |-> <<OldLine, GarbageLine>>] }

\* generation responses: 5 clean lines; 5 untidy lines among blank ones;
\* 6 non-empty lines; 4 non-empty lines; nothing
Responses ==
    { join(<<"\n">>, [i \in 1..K |-> <<"a", "?">>]),
      <<"\n", " ", "a", " ", " ", "a", ".", "\n", "\n", "a", "?", "?", "\n",
        "a", " ", "?", "a", "\n", "a", "\t", "a", "\n", ".", "\n">>,
      <<"a", "?", "\n", "a", " ", "a", "?", "\n", "a", ".", "\n",
        "c", "?", "\n", "c", " ", "c", "?", "\n", "c", ".">>,
      <<"a", "?", "\n", "\n", "a", "\n", "a", "?", "\n", "a", ".", "\n">>,
      <<>> }

AllSet == [v \in ReqVars |-> "value"]
NoTail == [set |-> FALSE, val |-> <<>>]
TailSettings == {<<"1">>, <<"-", "1">>, <<"x">>, <<>>}
\* environments: everything set; one required variable unset or empty;
\* nothing set; everything set with HISTORY_TAIL given
EnvChoices ==
    {[req |-> AllSet, tail |-> NoTail]}
    \cup {[req |-> [AllSet EXCEPT ![v] = m], tail |-> NoTail] :
            v \in ReqVars, m \in {"unset", "empty"}}
    \cup {[req |-> [v \in ReqVars |-> "unset"], tail |-> NoTail]}
    \cup {[req |-> AllSet, tail |-> [set |-> TRUE, val |-> t]] : t \in TailSettings}

Statuses == {200, 299, 300, 500}

(***************************************************************************)
(* Initial states.                                                         *)
(***************************************************************************)
HarnessOff ==
    /\ tPc = "off"
    /\ tIn = <<>>
    /\ tOut = <<>>
    /\ tOut2 = <<>>

RunLocalsInit ==
    /\ pc = "config"
    /\ history_tail_n = 0
    /\ history = <<>>
    /\ recent = <<>>
    /\ user_input = <<>>
    /\ raw = <<>>
    /\ question_block = <<>>
    /\ err = "none"
    /\ genCalls = 0
    /\ emailCalls = <<>>

MainOff ==
    /\ pc = "off"
    /\ env = [req |-> AllSet, tail |-> NoTail]
    /\ pathHasDir = TRUE
    /\ fileExists = FALSE
    /\ fileLines = <<>>
    /\ fileAtStart = [exists |-> FALSE, lines |-> <<>>]
    /\ history_tail_n = 0
    /\ history = <<>>
    /\ recent = <<>>
    /\ user_input = <<>>
    /\ raw = <<>>
    /\ question_block = <<>>
    /\ err = "none"
    /\ genCalls = 0
    /\ emailCalls = <<>>
    /\ clock = 0
    /\ runs = 0

Init ==
    /\ HarnessOff
    /\ RunLocalsInit
    /\ env \in EnvChoices
    /\ pathHasDir \in BOOLEAN
    /\ \E f \in InitialFiles :
        /\ fileExists = f.exists
        /\ fileLines = f.lines
        /\ fileAtStart = f
    /\ clock = 1
    /\ runs = 1

InitNorm ==
    /\ MainOff
    /\ tPc = "ready"
    /\ tIn \in RawTexts
    /\ tOut = <<>>
    /\ tOut2 = <<>>

InitTail ==
    /\ MainOff
    /\ tPc = "ready"
    /\ tIn \in TailInputs
    /\ tOut = <<>>
    /\ tOut2 = <<>>

(***************************************************************************)
(* Harness actions.                                                        *)
(***************************************************************************)
NormApply ==
    /\ tPc = "ready"
    /\ tOut' = normalize_output(tIn)
    /\ tPc' = "once"
    /\ UNCHANGED <<tIn, tOut2>>
    /\ UNCHANGED mvars

NormReapply ==
    /\ tPc = "once"
    /\ tOut.ok
    /\ tOut2' = normalize_output(tOut.value)
    /\ tPc' = "twice"
    /\ UNCHANGED <<tIn, tOut>>
    /\ UNCHANGED mvars

TailApply ==
    /\ tPc = "ready"
    /\ tOut' = tail_history(tIn.history, tIn.n)
    /\ tPc' = "once"
    /\ UNCHANGED <<tIn, tOut2>>
    /\ UNCHANGED mvars

(***************************************************************************)
(* main(), one action per outcome of each step.                            *)
(***************************************************************************)
Abort(e) ==
    /\ pc' = "aborted"
    /\ err' = e

\* line 206, int() raises ValueError
ConfigFails ==
    /\ pc = "config"
    /\ ~int_parse(getenv_tail(env)).ok
    /\ Abort("ValueError")
    /\ UNCHANGED <<env, pathHasDir, fileExists, fileLines, fileAtStart, history_tail_n,
                   history, recent, user_input, raw, question_block, genCalls,
                   emailCalls, clock, runs>>
    /\ UNCHANGED hvars

\* lines 205-206
ConfigOk ==
    /\ pc = "config"
    /\ int_parse(getenv_tail(env)).ok
    /\ history_tail_n' = int_parse(getenv_tail(env)).value
    /\ pc' = next_step("config")
    /\ UNCHANGED <<env, pathHasDir, fileExists, fileLines, fileAtStart,
                   history, recent, user_input, raw, question_block, err, genCalls,
                   emailCalls, clock, runs>>
    /\ UNCHANGED hvars

\* line 208, load_history raises
LoadFails ==
    /\ pc = "load"
    /\ LET r == load_history(fileExists, fileLines, pathHasDir)
       IN  /\ r.err # "none"
           /\ Abort(r.err)
           /\ fileExists' = r.exists
           /\ fileLines' = r.lines
    /\ UNCHANGED <<env, pathHasDir, fileAtStart, history_tail_n,
                   history, recent, user_input, raw, question_block, genCalls,
                   emailCalls, clock, runs>>
    /\ UNCHANGED hvars

\* line 208
LoadOk ==
    /\ pc = "load"
    /\ LET r == load_history(fileExists, fileLines, pathHasDir)
       IN  /\ r.err = "none"
           /\ history' = r.items
           /\ fileExists' = r.exists
           /\ fileLines' = r.lines
    /\ pc' = next_step("load")
    /\ UNCHANGED <<env, pathHasDir, fileAtStart, history_tail_n,
                   recent, user_input, raw, question_block, err, genCalls,
                   emailCalls, clock, runs>>
    /\ UNCHANGED hvars

\* line 209
TailStep ==
    /\ pc = "tail"
    /\ recent' = tail_history(history, history_tail_n)
    /\ pc' = next_step("tail")
    /\ UNCHANGED <<env, pathHasDir, fileExists, fileLines, fileAtStart, history_tail_n,
                   history, user_input, raw, question_block, err, genCalls,
                   emailCalls, clock, runs>>
    /\ UNCHANGED hvars

\* line 137, must_getenv raises before any request is made
GenConfigError ==
    /\ pc = "generate"
    /\ must_getenv_raises(env, "OPENAI_API_KEY")
    /\ Abort("config")
    /\ UNCHANGED <<env, pathHasDir, fileExists, fileLines, fileAtStart, history_tail_n,
                   history, recent, user_input, raw, question_block, genCalls,
                   emailCalls, clock, runs>>
    /\ UNCHANGED hvars

\* lines 137-153: the request is sent and the service answers with some text
GenCall ==
    /\ pc = "generate"
    /\ ~must_getenv_raises(env, "OPENAI_API_KEY")
    /\ user_input' = build_context(recent)
    /\ genCalls' = genCalls + 1
    /\ raw' \in Responses
    /\ pc' = next_step("generate")
    /\ UNCHANGED <<env, pathHasDir, fileExists, fileLines, fileAtStart, history_tail_n,
                   history, recent, question_block, err,
                   emailCalls, clock, runs>>
    /\ UNCHANGED hvars

\* line 155, normalize_output raises
NormalizeFails ==
    /\ pc = "normalize"
    /\ ~normalize_output(raw).ok
    /\ Abort("validation")
    /\ UNCHANGED <<env, pathHasDir, fileExists, fileLines, fileAtStart, history_tail_n,
                   history, recent, user_input, raw, question_block, genCalls,
                   emailCalls, clock, runs>>
    /\ UNCHANGED hvars

\* lines 155, 211
NormalizeOk ==
    /\ pc = "normalize"
    /\ normalize_output(raw).ok
    /\ question_block' = normalize_output(raw).value
    /\ pc' = next_step("normalize")
    /\ UNCHANGED <<env, pathHasDir, fileExists, fileLines, fileAtStart, history_tail_n,
                   history, recent, user_input, raw, err, genCalls,
                   emailCalls, clock, runs>>
    /\ UNCHANGED hvars

\* lines 213-215
AppendStep ==
    /\ pc = "append"
    /\ fileLines' = append_history(fileLines, clock, question_block)
    /\ fileExists' = TRUE
    /\ pc' = next_step("append")
    /\ UNCHANGED <<env, pathHasDir, fileAtStart, history_tail_n,
                   history, recent, user_input, raw, question_block, err, genCalls,
                   emailCalls, clock, runs>>
    /\ UNCHANGED hvars

\* lines 165-175, must_getenv raises before the POST
SendConfigError ==
    /\ pc = "send"
    /\ send_config_missing(env)
    /\ Abort("config")
    /\ UNCHANGED <<env, pathHasDir, fileExists, fileLines, fileAtStart, history_tail_n,
                   history, recent, user_input, raw, question_block, genCalls,
                   emailCalls, clock, runs>>
    /\ UNCHANGED hvars

\* lines 222-224, 188-190: the POST is made and answered with status < 300
SendOk ==
    /\ pc = "send"
    /\ ~send_config_missing(env)
    /\ \E status \in Statuses : status < HTTP_ERROR_FROM
    /\ emailCalls' = Append(emailCalls, question_block \o <<"\n">>)
    /\ pc' = next_step("send")
    /\ UNCHANGED <<env, pathHasDir, fileExists, fileLines, fileAtStart, history_tail_n,
                   history, recent, user_input, raw, question_block, err, genCalls,
                   clock, runs>>
    /\ UNCHANGED hvars

\* lines 222-224, 188-190: the POST is made and answered with status >= 300
SendFails ==
    /\ pc = "send"
    /\ ~send_config_missing(env)
    /\ \E status \in Statuses : status >= HTTP_ERROR_FROM
    /\ emailCalls' = Append(emailCalls, question_block \o <<"\n">>)
    /\ Abort("delivery")
    /\ UNCHANGED <<env, pathHasDir, fileExists, fileLines, fileAtStart, history_tail_n,
                   history, recent, user_input, raw, question_block, genCalls,
                   clock, runs>>
    /\ UNCHANGED hvars

\* the process has exited; the scheduler starts the next run later
NextRun ==
    /\ pc \in {"done", "aborted"}
    /\ runs < MaxRuns
    /\ runs' = runs + 1
    /\ clock' = clock + 1
    /\ fileAtStart' = [exists |-> fileExists, lines |-> fileLines]
    /\ pc' = "config"
    /\ history_tail_n' = 0
    /\ history' = <<>>
    /\ recent' = <<>>
    /\ user_input' = <<>>
    /\ raw' = <<>>
    /\ question_block' = <<>>
    /\ err' = "none"
    /\ genCalls' = 0
    /\ emailCalls' = <<>>
    /\ UNCHANGED <<env, pathHasDir, fileExists, fileLines>>
    /\ UNCHANGED hvars

Next ==
    \/ ConfigFails
    \/ ConfigOk
    \/ LoadFails
    \/ LoadOk
    \/ TailStep
    \/ GenConfigError
    \/ GenCall
    \/ NormalizeFails
    \/ NormalizeOk
    \/ AppendStep
    \/ SendConfigError
    \/ SendOk
    \/ SendFails
    \/ NextRun

NextNorm ==
    \/ NormApply
    \/ NormReapply

NextTail == TailApply

Spec == Init /\ [][Next]_vars
SpecNorm == InitNorm /\ [][NextNorm]_vars
SpecTail == InitTail /\ [][NextTail]_vars

(***************************************************************************)
(* Vocabulary of the properties, stated without the script's operators.    *)
(***************************************************************************)
\* the lines of a block: the text between consecutive line breaks
BlockLines(b) ==
    LET brk == {i \in 1..Len(b) : b[i] = "\n"}
        start(k) == IF k = 1 THEN 1
                    ELSE 1 + CHOOSE i \in brk : Cardinality({j \in brk : j <= i}) = k - 1
        stop(k) == IF k = Cardinality(brk) + 1 THEN Len(b)
                   ELSE (CHOOSE i \in brk : Cardinality({j \in brk : j <= i}) = k) - 1
    IN  [k \in 1..(Cardinality(brk) + 1) |-> SubSeq(b, start(k), stop(k))]

\* number of lines of a text that hold a character other than whitespace
CountNonBlankLines(text) ==
    Cardinality({i \in 1..Len(text) :
        /\ text[i] \notin Whitespace
        /\ \A j \in 1..(i - 1) :
              (\A k \in j..(i - 1) : text[k] # "\n") => text[j] \in Whitespace})

\* non-empty, one '?', which is last, and only single spaces between words
ValidLine(l) ==
    /\ Len(l) > 0
    /\ l[Len(l)] = "?"
    /\ \A i \in 1..(Len(l) - 1) : l[i] # "?"
    /\ \A i \in 1..Len(l) :
          l[i] \in Whitespace => (l[i] = " " /\ i > 1 /\ l[i - 1] \notin Whitespace)

\* the characters of s at the positions in I, in order
RECURSIVE Pick(_, _, _)
Pick(s, I, i) ==
    IF i > Len(s) THEN <<>>
    ELSE (IF i \in I THEN <<s[i]>> ELSE <<>>) \o Pick(s, I, i + 1)

\* step 1: every whitespace run becomes one space
StepCollapse(l) ==
    LET keep == {i \in 1..Len(l) : l[i] \in Whitespace => (i > 1 /\ l[i - 1] \notin Whitespace)}
        kept == Pick(l, keep, 1)
    IN  [i \in 1..Len(kept) |-> IF kept[i] \in Whitespace THEN " " ELSE kept[i]]

\* step 2: a line not ending in '?' loses its trailing '.'s and gets a '?'
StepMark(l) ==
    IF l # <<>> /\ l[Len(l)] = "?" THEN l
    ELSE LET nd == {i \in 1..Len(l) : l[i] # "."}
             m  == IF nd = {} THEN 0 ELSE CHOOSE i \in nd : \A j \in nd : j <= i
         IN  SubSeq(l, 1, m) \o <<"?">>

FirstMark(l) == CHOOSE i \in 1..Len(l) : l[i] = "?" /\ \A j \in 1..(i - 1) : l[j] # "?"
ManyMarks(l) == Cardinality({i \in 1..Len(l) : l[i] = "?"}) > 1

\* step 3 as claimed: the text up to and including the first '?', nothing else removed
StepCutAsClaimed(l) == IF ManyMarks(l) THEN SubSeq(l, 1, FirstMark(l)) ELSE l

\* step 3 as amended: the text before the first '?', without the whitespace
\* at its ends, then '?'
StepCutAmended(l) ==
    IF ManyMarks(l)
    THEN LET pre == SubSeq(l, 1, FirstMark(l) - 1)
             ns  == {i \in 1..Len(pre) : pre[i] \notin Whitespace}
             lo  == IF ns = {} THEN 1 ELSE CHOOSE i \in ns : \A j \in ns : i <= j
             hi  == IF ns = {} THEN 0 ELSE CHOOSE i \in ns : \A j \in ns : j <= i
         IN  SubSeq(pre, lo, hi) \o <<"?">>
    ELSE l

ExampleMultiMarkFixed ==
    <<"W", "h", "y", " ", "d", "o", " ", "y", "o", "u", " ", "a", "v", "o",
      "i", "d", " ", "d", "i", "s", "c", "o", "m", "f", "o", "r", "t", "?">>
ExampleNoMarkFixed ==
    <<"w", "h", "a", "t", " ", "m", "a", "t", "t", "e", "r", "s", " ", "m",
      "o", "s", "t", " ", "t", "o", "d", "a", "y", "?">>

\* the last m elements of h, in order
LastRecords(h, m) == [i \in 1..m |-> h[Len(h) - m + i]]

IsPrefix(s, t) == Len(s) <= Len(t) /\ SubSeq(t, 1, Len(s)) = s

\* normalize_output has been called in this run and has returned or raised
NormalizeTried == genCalls = 1 /\ pc \in {"append", "send", "done", "aborted"}
\* ... and returned
NormalizeSucceeded == NormalizeTried /\ err # "validation"
RunEnded == pc \in {"done", "aborted"}
\* the store holds a record of this run with this run's question block
RecordStored ==
    \E i \in 1..Len(fileLines) :
        /\ fileLines[i].kind = "json"
        /\ fileLines[i].date_utc = clock
        /\ json_unescape(fileLines[i].question) = question_block
LoadRaised == pc = "aborted" /\ err \in {"FileNotFoundError", "JSONDecodeError"}

(***************************************************************************)
(* Properties.                                                             *)
(***************************************************************************)
\* C1: whenever normalize_output returns a block, every line of the block is
\* non-empty, holds exactly one '?', which is its last character, and holds no
\* whitespace other than single spaces between words.
C1_QuestionBlockInvariant ==
    (tPc \in {"once", "twice"} /\ tOut.ok) =>
        \A i \in 1..Len(BlockLines(tOut.value)) : ValidLine(BlockLines(tOut.value)[i])

\* C1 witness: a raw text with a tab and surplus '?'s was normalized
C1_Witness ==
    /\ tPc = "once"
    /\ tOut.ok
    /\ count(tIn, "\t") > 0
    /\ count(tIn, "?") > K

\* C2 as claimed: a response of 6 non-empty lines ends the run with a
\* validation error and no call of the email endpoint.
C2_AsClaimed ==
    (NormalizeTried /\ CountNonBlankLines(raw) = 6) =>
        (err = "validation" /\ emailCalls = <<>>)

\* C2 amended: a response of 6 non-empty lines raises no validation error;
\* the block is the normalization of its first 5 non-empty lines; when the run
\* has ended that block is recorded in the store, and the email endpoint was
\* called unless an email setting is missing.
C2_SixLinesAccepted ==
    (NormalizeTried /\ CountNonBlankLines(raw) = 6) =>
        /\ err # "validation"
        /\ Len(BlockLines(question_block)) = K
        /\ \A i \in 1..K :
              BlockLines(question_block)[i]
                  = StepCutAmended(StepMark(StepCollapse(nonempty_lines(raw)[i])))
        /\ RunEnded => /\ RecordStored
                       /\ Len(emailCalls) = 1 \/ (err = "config" /\ emailCalls = <<>>)

\* C2 witness: a run given 6 non-empty lines ended with the email sent
C2_Witness ==
    /\ pc = "done"
    /\ CountNonBlankLines(raw) = 6
    /\ Len(emailCalls) = 1

\* C3 as claimed: a run that ends with a configuration error has made no
\* generation call, has appended nothing to the store and has not called the
\* email endpoint.
C3_Preflight ==
    err = "config" =>
        /\ genCalls = 0
        /\ fileLines = fileAtStart.lines
        /\ emailCalls = <<>>

\* C4: a step that calls the email endpoint starts from a state in which the
\* store already holds this run's record, and a run ended by a delivery error
\* is aborted with that record still in the store.
C4_AppendBeforeEmail ==
    [][ /\ Len(emailCalls') > Len(emailCalls) => (RecordStored /\ RecordStored')
        /\ err' = "delivery" => (pc' = "aborted" /\ RecordStored') ]_vars

\* C4 witness: the send failed and the record is in the store
C4_Witness ==
    /\ pc = "aborted"
    /\ err = "delivery"
    /\ Len(emailCalls) = 1
    /\ RecordStored

\* C5: a response with fewer than 5 non-empty lines ends the run with a
\* validation error and the store's lines are those it held before the run.
C5_TooFewLines ==
    (NormalizeTried /\ CountNonBlankLines(raw) < K) =>
        /\ pc = "aborted"
        /\ err = "validation"
        /\ fileLines = fileAtStart.lines

\* C5 witness: a response of some but fewer than 5 lines was rejected with a
\* non-empty store
C5_Witness ==
    /\ NormalizeTried
    /\ CountNonBlankLines(raw) \in 1..(K - 1)
    /\ err = "validation"
    /\ fileLines # <<>>

\* C6: normalize_output applied to a block it returned succeeds and returns
\* the same block.
C6_Idempotent ==
    tPc = "twice" => (tOut2.ok /\ tOut2.value = tOut.value)

\* C6 witness: a raw text that normalization changed was normalized twice
C6_Witness ==
    /\ tPc = "twice"
    /\ tOut.value # tIn

\* C7 as claimed: each line of the block is the retained line after collapse,
\* mark and a cut that removes nothing but the text after the first '?'.
C7_AsClaimed ==
    (tPc \in {"once", "twice"} /\ tOut.ok) =>
        \A i \in 1..K :
            BlockLines(tOut.value)[i]
                = StepCutAsClaimed(StepMark(StepCollapse(raw_lines(tIn)[i])))

\* C7 amended: each line of the block is the retained line after collapse,
\* mark and, when more than one '?' is left, the text before the first '?'
\* without whitespace at its ends followed by '?'; the two quoted lines become
\* the quoted results.
C7_StepsAmended ==
    (tPc \in {"once", "twice"} /\ tOut.ok) =>
        \A i \in 1..K :
            LET ln  == raw_lines(tIn)[i]
                out == BlockLines(tOut.value)[i]
            IN  /\ out = StepCutAmended(StepMark(StepCollapse(ln)))
                /\ ln = ExampleMultiMark => out = ExampleMultiMarkFixed
                /\ ln = ExampleNoMark => out = ExampleNoMarkFixed

\* C7 witness: the line with three '?'s was normalized to the quoted result
C7_Witness ==
    /\ tPc = "once"
    /\ tOut.ok
    /\ \E i \in 1..K :
          /\ raw_lines(tIn)[i] = ExampleMultiMark
          /\ BlockLines(tOut.value)[i] = ExampleMultiMarkFixed

\* C8: no step removes or changes a line of the store; a run that ends after
\* normalization succeeded has added exactly one line, its record, at the end,
\* and a run that ends otherwise has added none.
C8_AppendOnly ==
    [][ /\ IsPrefix(fileLines, fileLines')
        /\ RunEnded' =>
              IF NormalizeSucceeded'
              THEN fileLines' = Append(fileAtStart'.lines,
                                       json_dumps(clock', question_block'))
              ELSE fileLines' = fileAtStart'.lines ]_vars

\* C8 witness: a later run added its record after the lines of earlier runs
C8_Witness ==
    /\ pc = "done"
    /\ runs > 1
    /\ fileAtStart.lines # <<>>
    /\ fileLines = Append(fileAtStart.lines, json_dumps(clock, question_block))

\* C9: tail_history(history, n) is the last min(n, len(history)) records in
\* order when n >= 0 and the empty sequence when n <= 0.
C9_Tail ==
    tPc = "once" =>
        /\ tIn.n >= 0 => tOut = LastRecords(tIn.history, Min(tIn.n, Len(tIn.history)))
        /\ tIn.n <= 0 => tOut = <<>>

\* C9 witness: a proper, non-empty tail was taken
C9_Witness ==
    /\ tPc = "once"
    /\ tIn.n > 0
    /\ tIn.n < Len(tIn.history)
    /\ Len(tOut) = tIn.n

\* C10 as claimed: load_history of a store that does not exist, or that exists
\* and is empty, raises nothing, returns the empty sequence and leaves an
\* existing empty store.
C10_LoadMissing ==
    (~fileAtStart.exists \/ fileAtStart.lines = <<>>) =>
        /\ ~LoadRaised
        /\ pc = "tail" => (history = <<>> /\ fileExists /\ fileLines = <<>>)

====
